---- MODULE Spec2Model ----
(***************************************************************************)
(* Model of Weather_today.py: the WSJ Markets Brief job.                   *)
(* Texts are sequences of one-character strings; the regular expressions   *)
(* of the source are modelled by explicit left-to-right scans that return  *)
(* the non-overlapping matches re.sub / re.finditer would visit.           *)
(***************************************************************************)
EXTENDS Integers, Sequences, FiniteSets, TLC

VARIABLES pc, feed, INCLUDE_WEEKENDS, items, OPENAI_API_KEY, USED_LLM,
          FALLBACK_REASON, llm, calls, overall_raw, overall, old_order,
          mapping, refs_text_parts, origin_label

vars == <<pc, feed, INCLUDE_WEEKENDS, items, OPENAI_API_KEY, USED_LLM,
          FALLBACK_REASON, llm, calls, overall_raw, overall, old_order,
          mapping, refs_text_parts, origin_label>>

(* ------------------------------ bounds -------------------------------- *)
MaxItems == 2
MaxPieces == 4
MaxFeed == 2
NormMaxLen == 6

(* ------------------------- characters and ints ------------------------ *)
DigitChars == <<"0", "1", "2", "3", "4", "5", "6", "7", "8", "9">>

Digit == {DigitChars[i] : i \in 1..10}

DigitVal(c) == (CHOOSE i \in 1..10 : DigitChars[i] = c) - 1

Whitespace == {" ", "\n"}

None == "None"

RECURSIVE ParseInt(_)
ParseInt(ds) ==
  IF ds = <<>> THEN 0
  ELSE 10 * ParseInt(SubSeq(ds, 1, Len(ds) - 1)) + DigitVal(ds[Len(ds)])

RECURSIVE IntToStr(_)
IntToStr(n) ==
  IF n < 10 THEN <<DigitChars[n + 1]>>
  ELSE IntToStr(n \div 10) \o <<DigitChars[(n % 10) + 1]>>

RECURSIVE LStrip(_)
LStrip(t) ==
  IF t # <<>> /\ t[1] \in Whitespace THEN LStrip(Tail(t)) ELSE t

RECURSIVE RStrip(_)
RStrip(t) ==
  IF t # <<>> /\ t[Len(t)] \in Whitespace
  THEN RStrip(SubSeq(t, 1, Len(t) - 1)) ELSE t

Strip(t) == RStrip(LStrip(t))

(* ----------------------- regular-expression scans --------------------- *)
RECURSIVE DigitRunEnd(_, _)
DigitRunEnd(t, i) ==
  IF i <= Len(t) /\ t[i] \in Digit THEN DigitRunEnd(t, i + 1) ELSE i

MatchAt_empty_digits(t, i, open, close) ==
  /\ t[i] = open
  /\ LET j == DigitRunEnd(t, i + 1)
     IN  j <= Len(t) /\ t[j] = close

MatchAt(t, i, open, close) ==
  /\ t[i] = open
  /\ LET j == DigitRunEnd(t, i + 1)
     IN  j > i + 1 /\ j <= Len(t) /\ t[j] = close

RECURSIVE FindAllFrom(_, _, _, _)
FindAllFrom(t, i, open, close) ==
  IF i > Len(t) THEN <<>>
  ELSE IF MatchAt(t, i, open, close)
       THEN LET j == DigitRunEnd(t, i + 1)
            IN  <<[start |-> i, stop |-> j, group |-> SubSeq(t, i + 1, j - 1)]>>
                \o FindAllFrom(t, j + 1, open, close)
       ELSE FindAllFrom(t, i + 1, open, close)

FindAll(t, open, close) == FindAllFrom(t, 1, open, close)

RECURSIVE SubFrom(_, _, _, _, _)
SubFrom(t, pos, ms, reps, k) ==
  IF k > Len(ms) THEN SubSeq(t, pos, Len(t))
  ELSE SubSeq(t, pos, ms[k].start - 1) \o reps[k]
       \o SubFrom(t, ms[k].stop + 1, ms, reps, k + 1)

ReSub(t, ms, reps) == SubFrom(t, 1, ms, reps, 1)

ReSubFirst(t, ms, reps) ==
  IF ms = <<>> THEN t ELSE SubFrom(t, 1, <<ms[1]>>, <<reps[1]>>, 1)

Bracketed(ds) == <<"[">> \o ds \o <<"]">>

(* --------------------- citation and text utilities -------------------- *)
normalize_first_only(text) ==
  LET m1 == FindAll(text, "{", "}")
      t1 == ReSubFirst(text, m1, [k \in 1..Len(m1) |-> Bracketed(m1[k].group)])
      m2 == FindAll(t1, "(", ")")
  IN  ReSubFirst(t1, m2, [k \in 1..Len(m2) |-> Bracketed(m2[k].group)])

normalize_brackets(text) ==
  LET m1 == FindAll(text, "{", "}")
      t1 == ReSub(text, m1, [k \in 1..Len(m1) |-> Bracketed(m1[k].group)])
      m2 == FindAll(t1, "(", ")")
  IN  ReSub(t1, m2, [k \in 1..Len(m2) |-> Bracketed(m2[k].group)])

strip_invalid_citations(text, max_n) ==
  LET ms == FindAll(text, "[", "]")
  IN  ReSub(text, ms,
            [k \in 1..Len(ms) |->
               IF 1 <= ParseInt(ms[k].group) /\ ParseInt(ms[k].group) <= max_n
               THEN SubSeq(text, ms[k].start, ms[k].stop) ELSE <<>>])

InSeq(x, s) == \E i \in 1..Len(s) : s[i] = x

RECURSIVE RefOrderFrom(_, _, _, _)
RefOrderFrom(ms, k, max_n, nums) ==
  IF k > Len(ms) THEN nums
  ELSE LET n == ParseInt(ms[k].group)
       IN  IF 1 <= n /\ n <= max_n /\ ~InSeq(n, nums)
           THEN RefOrderFrom(ms, k + 1, max_n, Append(nums, n))
           ELSE RefOrderFrom(ms, k + 1, max_n, nums)

RECURSIVE RefOrderDupsFrom(_, _, _, _)
RefOrderDupsFrom(ms, k, max_n, nums) ==
  IF k > Len(ms) THEN nums
  ELSE LET n == ParseInt(ms[k].group)
       IN  IF 1 <= n /\ n <= max_n
           THEN RefOrderDupsFrom(ms, k + 1, max_n, Append(nums, n))
           ELSE RefOrderDupsFrom(ms, k + 1, max_n, nums)

extract_ref_order_dups(summary_text, max_n) ==
  RefOrderDupsFrom(FindAll(summary_text, "[", "]"), 1, max_n, <<>>)

extract_ref_order(summary_text, max_n) ==
  RefOrderFrom(FindAll(summary_text, "[", "]"), 1, max_n, <<>>)

(* A Python dict: a sequence of <<key, value>> pairs in insertion order;   *)
(* setting an existing key replaces its value and keeps its position.      *)
HasKey(d, key) == \E i \in 1..Len(d) : d[i][1] = key

Lookup(d, key) == d[CHOOSE i \in 1..Len(d) : d[i][1] = key][2]

DictSet(d, key, val) ==
  IF HasKey(d, key)
  THEN [i \in 1..Len(d) |-> IF d[i][1] = key THEN <<key, val>> ELSE d[i]]
  ELSE Append(d, <<key, val>>)

RECURSIVE DictFrom(_, _, _)
DictFrom(pairs, k, d) ==
  IF k > Len(pairs) THEN d
  ELSE DictFrom(pairs, k + 1, DictSet(d, pairs[k][1], pairs[k][2]))

CitationMapping_zero_based(cited_nums) ==
  DictFrom([i \in 1..Len(cited_nums) |-> <<cited_nums[i], i - 1>>], 1, <<>>)

CitationMapping(cited_nums) ==
  DictFrom([i \in 1..Len(cited_nums) |-> <<cited_nums[i], i>>], 1, <<>>)

renumber_citations(summary_text, cited_nums) ==
  LET map == CitationMapping(cited_nums)
      ms  == FindAll(summary_text, "[", "]")
      new_text ==
        ReSub(summary_text, ms,
              [k \in 1..Len(ms) |->
                 LET old == ParseInt(ms[k].group)
                 IN  IF HasKey(map, old)
                     THEN Bracketed(IntToStr(Lookup(map, old))) ELSE <<>>])
  IN  [text |-> new_text, mapping |-> map]

(* ------------------------------- helpers ------------------------------ *)
HOURS_BACK == 26

(* Time is counted in hours from a Monday 00:00; the job runs Monday 10:00. *)
now_et == 7 * 24 + 10

Weekday(t) == (t \div 24) % 7

within_window(dt) == dt >= now_et - HOURS_BACK

(* re.sub(r"<[^>]+>", "", t): a "<", at least one character other than     *)
(* ">", then ">".  html.unescape is the identity on texts without "&".      *)
RECURSIVE TagEnd(_, _)
TagEnd(t, i) ==
  IF i <= Len(t) /\ t[i] # ">" THEN TagEnd(t, i + 1) ELSE i

RECURSIVE StripTagsFrom(_, _)
StripTagsFrom(t, i) ==
  IF i > Len(t) THEN <<>>
  ELSE LET j == TagEnd(t, i + 1)
       IN  IF t[i] = "<" /\ j > i + 1 /\ j <= Len(t)
           THEN StripTagsFrom(t, j + 1)
           ELSE <<t[i]>> \o StripTagsFrom(t, i + 1)

clean_text(t) == IF t = <<>> THEN <<>> ELSE Strip(StripTagsFrom(t, 1))

(* entry.published is <<>> when the entry has no parseable date field.     *)
parse_pubdate(entry) ==
  IF entry.published = <<>> THEN now_et ELSE entry.published[1]

IsSubstring(a, b) ==
  \E i \in 0..(Len(b) - Len(a)) : SubSeq(b, i + 1, i + Len(a)) = a

Combined(summary, description) ==
  IF description # <<>> /\ ~IsSubstring(description, summary)
  THEN IF summary # <<>> THEN Strip(summary \o <<" ">> \o description)
       ELSE description
  ELSE summary

RECURSIVE Admitted(_, _, _)
Admitted(entries, k, include_weekends) ==
  IF k > Len(entries) THEN <<>>
  ELSE LET e     == entries[k]
           title == clean_text(e.title)
           pub   == parse_pubdate(e)
           rest  == Admitted(entries, k + 1, include_weekends)
       IN  IF title = <<>> \/ e.link = <<>> THEN rest
           ELSE IF ~include_weekends /\ Weekday(pub) >= 5 THEN rest
           ELSE IF within_window(pub)
                THEN <<[title |-> title, link |-> e.link,
                        abstract |-> Combined(clean_text(e.summary),
                                              clean_text(e.description)),
                        pub |-> pub]>> \o rest
                ELSE rest

InsertNewestFirst(sorted, x) ==
  LET p == Cardinality({i \in 1..Len(sorted) : sorted[i].pub >= x.pub})
  IN  SubSeq(sorted, 1, p) \o <<x>> \o SubSeq(sorted, p + 1, Len(sorted))

RECURSIVE NewestFirstFrom(_, _, _)
NewestFirstFrom(d, k, acc) ==
  IF k > Len(d) THEN acc
  ELSE NewestFirstFrom(d, k + 1, InsertNewestFirst(acc, d[k][2]))

UniqFirstSeen(its) ==
  LET keep == {i \in 1..Len(its) : \A j \in 1..(i - 1) : its[j].link # its[i].link}
      F[k \in 0..Len(its)] ==
        IF k = 0 THEN <<>>
        ELSE IF k \in keep THEN Append(F[k - 1], <<its[k].link, its[k]>>)
             ELSE F[k - 1]
  IN  F[Len(its)]

Uniq(its) ==
  DictFrom([i \in 1..Len(its) |-> <<its[i].link, its[i]>>], 1, <<>>)

fetch_items(entries, include_weekends) ==
  NewestFirstFrom(Uniq(Admitted(entries, 1, include_weekends)), 1, <<>>)

(* Feed entries, flattened over WSJ_FEEDS in fetch order.  An entry that is *)
(* dropped for its empty title or link comes with one date and one summary. *)
Entries ==
  {e \in [title : {<<" ">>, <<"<", "b", ">", "T">>},
          link : {<<>>, <<"a">>, <<"b">>},
          summary : {<<"x">>},
          description : {<<"x">>, <<"y">>},
          published : {<<>>, <<now_et - 1>>, <<now_et - 12>>, <<now_et - 80>>}] :
     (clean_text(e.title) = <<>> \/ e.link = <<>>)
        => (e.published = <<>> /\ e.description = <<"x">>)}

RECURSIVE Feeds(_)
Feeds(k) ==
  IF k = 0 THEN {<<>>}
  ELSE LET prev == Feeds(k - 1)
       IN  prev \cup {Append(f, e) : f \in prev, e \in Entries}

(* --------------------------- evidence items --------------------------- *)
(* build_email only reads the title and link of the fetched items, so the  *)
(* pipeline is run on the first N of a fixed newest-first list.            *)
Item(i) ==
  [title |-> <<"T">> \o IntToStr(i), link |-> <<"L">> \o IntToStr(i),
   abstract |-> <<"x">>, pub |-> 0 - i]

Numbered(n) == [i \in 1..n |-> Item(i)]

(* ------------------------- replies of the LLM ------------------------- *)
Pieces ==
  {<<"[">>, <<"]">>, <<"0">>, <<"1">>, <<"2">>, <<" ">>,
   <<"[", "0", "]">>, <<"{", "1", "}">>, <<"(", "2", ")">>}

RECURSIVE Concats(_)
Concats(k) ==
  IF k = 0 THEN {<<>>}
  ELSE LET prev == Concats(k - 1)
       IN  prev \cup {p \o q : p \in prev, q \in Pieces}

Texts == Concats(MaxPieces)

Replies ==
  {[kind |-> "raise", content |-> <<>>], [kind |-> "none", content |-> <<>>]}
  \cup {[kind |-> "content", content |-> t] : t \in Texts}

(* ------------------------- LLM summarization -------------------------- *)
USE_LLM == TRUE

NoItemsMessage ==
  <<"N", "o", " ", "f", "r", "e", "s", "h", " ", "m", "a", "r", "k", "e",
    "t", "-", "m", "o", "v", "i", "n", "g", " ", "h", "e", "a", "d", "l",
    "i", "n", "e", "s", " ", "i", "n", " ", "t", "h", "e", " ", "l", "a",
    "s", "t", " ", "2", "4", " ", "h", "o", "u", "r", "s", ".">>

FallbackText(numbered_items) ==
  LET n == Len(numbered_items)
  IN  Strip(<<"1", ")", " ">>
            \o (IF n >= 1 THEN numbered_items[1].title
                ELSE <<"N", "o", " ", "i", "t", "e", "m">>)
            \o <<"\n", "\n">> \o <<"2", ")", " ">>
            \o (IF n >= 2 THEN numbered_items[2].title ELSE <<>>))

LlmReached(numbered_items, key) ==
  Len(numbered_items) # 0 /\ USE_LLM /\ key

summarize_overall_stale(numbered_items, key, reply) ==
  IF Len(numbered_items) = 0
  THEN [text |-> NoItemsMessage, used |-> FALSE, reason |-> "NO_ITEMS",
        llm |-> "not_called"]
  ELSE IF ~USE_LLM \/ ~key
  THEN [text |-> FallbackText(numbered_items), used |-> FALSE,
        reason |-> IF ~key THEN "NO_API_KEY" ELSE "USE_LLM_FALSE",
        llm |-> "not_called"]
  ELSE IF reply.kind = "content"
  THEN [text |-> Strip(reply.content), used |-> TRUE,
        reason |-> FALLBACK_REASON, llm |-> "generated"]
  ELSE [text |-> FallbackText(numbered_items), used |-> FALSE,
        reason |-> "OPENAI_ERROR", llm |-> "failed"]

summarize_overall_no_empty_check(numbered_items, key, reply) ==
  IF ~USE_LLM \/ ~key
  THEN [text |-> FallbackText(numbered_items), used |-> FALSE,
        reason |-> IF ~key THEN "NO_API_KEY" ELSE "USE_LLM_FALSE",
        llm |-> "not_called"]
  ELSE IF reply.kind = "content"
  THEN [text |-> Strip(reply.content), used |-> TRUE, reason |-> None,
        llm |-> "generated"]
  ELSE [text |-> FallbackText(numbered_items), used |-> FALSE,
        reason |-> "OPENAI_ERROR", llm |-> "failed"]

summarize_overall(numbered_items, key, reply) ==
  IF Len(numbered_items) = 0
  THEN [text |-> NoItemsMessage, used |-> FALSE, reason |-> "NO_ITEMS",
        llm |-> "not_called"]
  ELSE IF ~USE_LLM \/ ~key
  THEN [text |-> FallbackText(numbered_items), used |-> FALSE,
        reason |-> IF ~key THEN "NO_API_KEY" ELSE "USE_LLM_FALSE",
        llm |-> "not_called"]
  ELSE IF reply.kind = "content"
  THEN [text |-> Strip(reply.content), used |-> TRUE, reason |-> None,
        llm |-> "generated"]
  ELSE [text |-> FallbackText(numbered_items), used |-> FALSE,
        reason |-> "OPENAI_ERROR", llm |-> "failed"]

(* ----------------------------- build_email ---------------------------- *)
NoReferences ==
  <<"N", "o", " ", "r", "e", "f", "e", "r", "e", "n", "c", "e", "s", " ",
    "a", "v", "a", "i", "l", "a", "b", "l", "e", ".">>

InsertByNew(sorted, x) ==
  LET p == Cardinality({i \in 1..Len(sorted) : sorted[i][2] <= x[2]})
  IN  SubSeq(sorted, 1, p) \o <<x>> \o SubSeq(sorted, p + 1, Len(sorted))

RECURSIVE SortedByNewFrom(_, _, _)
SortedByNewFrom(d, k, acc) ==
  IF k > Len(d) THEN acc
  ELSE SortedByNewFrom(d, k + 1, InsertByNew(acc, d[k]))

SortedByNew(d) == SortedByNewFrom(d, 1, <<>>)

RefText(new, it) ==
  Bracketed(IntToStr(new)) \o <<" ">> \o it.title \o <<" ">> \o it.link

References_by_new(numbered, map) ==
  LET kv == SortedByNew(map)
  IN  [i \in 1..Len(kv) |-> RefText(kv[i][2], numbered[kv[i][2]])]

References(numbered, map) ==
  LET kv == SortedByNew(map)
  IN  [i \in 1..Len(kv) |-> RefText(kv[i][2], numbered[kv[i][1]])]

OriginLabel(used, reason) ==
  IF used THEN [label |-> "GPT summarize:", reason |-> None]
  ELSE [label |-> "Fallback summary", reason |-> reason]

Summarize ==
  /\ pc = "start"
  /\ \E reply \in IF LlmReached(items, OPENAI_API_KEY) THEN Replies
                  ELSE {[kind |-> "raise", content |-> <<>>]} :
       LET r == summarize_overall(items, OPENAI_API_KEY, reply)
       IN  /\ overall_raw' = r.text
           /\ USED_LLM' = r.used
           /\ FALLBACK_REASON' = r.reason
           /\ llm' = r.llm
  /\ calls' = calls \cup {"summarize_overall"}
                    \cup (IF LlmReached(items, OPENAI_API_KEY)
                          THEN {"chat.completions.create"} ELSE {})
  /\ pc' = "summarized"
  /\ UNCHANGED <<feed, INCLUDE_WEEKENDS, items, OPENAI_API_KEY, overall,
                 old_order, mapping, refs_text_parts, origin_label>>

CleanCitations ==
  /\ pc = "summarized"
  /\ LET stripped ==
           strip_invalid_citations(normalize_brackets(overall_raw), Len(items))
     IN  /\ overall' = stripped
         /\ old_order' = extract_ref_order(stripped, Len(items))
  /\ calls' = calls \cup {"normalize_brackets", "strip_invalid_citations",
                          "extract_ref_order"}
  /\ pc' = "cleaned"
  /\ UNCHANGED <<feed, INCLUDE_WEEKENDS, items, OPENAI_API_KEY, USED_LLM,
                 FALLBACK_REASON, llm, overall_raw, mapping, refs_text_parts,
                 origin_label>>

BuildReferences ==
  /\ pc = "cleaned"
  /\ IF old_order # <<>>
     THEN LET r == renumber_citations(overall, old_order)
          IN  /\ overall' = r.text
              /\ mapping' = r.mapping
              /\ refs_text_parts' = References(items, r.mapping)
              /\ calls' = calls \cup {"renumber_citations"}
     ELSE /\ mapping' = <<>>
          /\ refs_text_parts' = <<NoReferences>>
          /\ UNCHANGED <<overall, calls>>
  /\ origin_label' = OriginLabel(USED_LLM, FALLBACK_REASON)
  /\ pc' = "built"
  /\ UNCHANGED <<feed, INCLUDE_WEEKENDS, items, OPENAI_API_KEY, USED_LLM,
                 FALLBACK_REASON, llm, overall_raw, old_order>>

(* A further call of build_email in the same process: the module globals   *)
(* USED_LLM and FALLBACK_REASON keep their values, the locals are fresh.   *)
NextRun ==
  /\ pc = "built"
  /\ pc' = "start"
  /\ \E n \in 0..MaxItems : items' = Numbered(n)
  /\ OPENAI_API_KEY' \in BOOLEAN
  /\ llm' = "not_called"
  /\ calls' = {}
  /\ overall_raw' = <<>>
  /\ overall' = <<>>
  /\ old_order' = <<>>
  /\ mapping' = <<>>
  /\ refs_text_parts' = <<>>
  /\ origin_label' = [label |-> "", reason |-> None]
  /\ UNCHANGED <<feed, INCLUDE_WEEKENDS, USED_LLM, FALLBACK_REASON>>

Init ==
  /\ pc = "start"
  /\ feed = <<>>
  /\ INCLUDE_WEEKENDS = FALSE
  /\ \E n \in 0..MaxItems : items = Numbered(n)
  /\ OPENAI_API_KEY \in BOOLEAN
  /\ USED_LLM = FALSE
  /\ FALLBACK_REASON = None
  /\ llm = "not_called"
  /\ calls = {}
  /\ overall_raw = <<>>
  /\ overall = <<>>
  /\ old_order = <<>>
  /\ mapping = <<>>
  /\ refs_text_parts = <<>>
  /\ origin_label = [label |-> "", reason |-> None]

Next == Summarize \/ CleanCitations \/ BuildReferences \/ NextRun

Spec == Init /\ [][Next]_vars

(* ------------------------------ fetch_items --------------------------- *)
FetchItems ==
  /\ pc = "fetch"
  /\ items' = fetch_items(feed, INCLUDE_WEEKENDS)
  /\ calls' = calls \cup {"fetch_items"}
  /\ pc' = "fetched"
  /\ UNCHANGED <<feed, INCLUDE_WEEKENDS, OPENAI_API_KEY, USED_LLM,
                 FALLBACK_REASON, llm, overall_raw, overall, old_order,
                 mapping, refs_text_parts, origin_label>>

InitFetch ==
  /\ pc = "fetch"
  /\ feed \in Feeds(MaxFeed)
  /\ INCLUDE_WEEKENDS \in BOOLEAN
  /\ items = <<>>
  /\ OPENAI_API_KEY = FALSE
  /\ USED_LLM = FALSE
  /\ FALLBACK_REASON = None
  /\ llm = "not_called"
  /\ calls = {}
  /\ overall_raw = <<>>
  /\ overall = <<>>
  /\ old_order = <<>>
  /\ mapping = <<>>
  /\ refs_text_parts = <<>>
  /\ origin_label = [label |-> "", reason |-> None]

NextFetch == FetchItems

SpecFetch == InitFetch /\ [][NextFetch]_vars

(* ---------------- normalize_brackets as a pure function --------------- *)
NormAlphabet == {"{", "}", "(", ")", "[", "1"}

RECURSIVE Strings(_)
Strings(k) ==
  IF k = 0 THEN {<<>>}
  ELSE LET prev == Strings(k - 1)
       IN  prev \cup {Append(t, c) : t \in prev, c \in NormAlphabet}

NormalizeOnce ==
  /\ pc = "norm0"
  /\ overall' = normalize_brackets(overall_raw)
  /\ calls' = calls \cup {"normalize_brackets"}
  /\ pc' = "norm1"
  /\ UNCHANGED <<feed, INCLUDE_WEEKENDS, items, OPENAI_API_KEY, USED_LLM,
                 FALLBACK_REASON, llm, overall_raw, old_order, mapping,
                 refs_text_parts, origin_label>>

NormalizeAgain ==
  /\ pc = "norm1"
  /\ overall' = normalize_brackets(overall)
  /\ pc' = "norm2"
  /\ UNCHANGED <<feed, INCLUDE_WEEKENDS, items, OPENAI_API_KEY, USED_LLM,
                 FALLBACK_REASON, llm, calls, overall_raw, old_order, mapping,
                 refs_text_parts, origin_label>>

InitNorm ==
  /\ pc = "norm0"
  /\ overall_raw \in Strings(NormMaxLen)
  /\ overall = overall_raw
  /\ feed = <<>>
  /\ INCLUDE_WEEKENDS = FALSE
  /\ items = <<>>
  /\ OPENAI_API_KEY = FALSE
  /\ USED_LLM = FALSE
  /\ FALLBACK_REASON = None
  /\ llm = "not_called"
  /\ calls = {}
  /\ old_order = <<>>
  /\ mapping = <<>>
  /\ refs_text_parts = <<>>
  /\ origin_label = [label |-> "", reason |-> None]

NextNorm == NormalizeOnce \/ NormalizeAgain

SpecNorm == InitNorm /\ [][NextNorm]_vars

(* ======================================================================= *)
(* Properties.  Markers are described here declaratively, as index pairs    *)
(* <<i, j>> of an opening and a matching closing bracket with only digits   *)
(* (at least one) between them, independently of the scans above.           *)
(* ======================================================================= *)
MarkersOf(t, pairs) ==
  {m \in (1..Len(t)) \X (1..Len(t)) :
     /\ m[2] > m[1] + 1
     /\ <<t[m[1]], t[m[2]]>> \in pairs
     /\ \A k \in (m[1] + 1)..(m[2] - 1) : t[k] \in Digit}

BracketMarkers(t) == MarkersOf(t, {<<"[", "]">>})

AnyMarkers(t) == MarkersOf(t, {<<"[", "]">>, <<"{", "}">>, <<"(", ")">>})

MarkerValue(t, m) == ParseInt(SubSeq(t, m[1] + 1, m[2] - 1))

ValidCited(t, ms, n) == {MarkerValue(t, m) : m \in ms} \cap (1..n)

FirstPos(t, ms, v) ==
  CHOOSE i \in 1..Len(t) :
    /\ \E m \in ms : m[1] = i /\ MarkerValue(t, m) = v
    /\ \A m \in ms : MarkerValue(t, m) = v => m[1] >= i

Rank(t, ms, n, v) ==
  1 + Cardinality({w \in ValidCited(t, ms, n) :
                     FirstPos(t, ms, w) < FirstPos(t, ms, v)})

FirstAppearanceOrder(t, ms, n) ==
  [i \in 1..Cardinality(ValidCited(t, ms, n)) |->
     CHOOSE v \in ValidCited(t, ms, n) : Rank(t, ms, n, v) = i]

N == Len(items)

AfterSummarize == pc \in {"summarized", "cleaned", "built"}

NormalizerCalls ==
  {"normalize_brackets", "strip_invalid_citations", "extract_ref_order",
   "renumber_citations"}

(* C1: once build_email has cleaned and renumbered the text, every [n]     *)
(* marker of the final text has n in 1..K, K being the number of indices    *)
(* extract_ref_order returned (no marker at all when K = 0).                *)
C1_FinalMarkersDense ==
  pc = "built" =>
    \A m \in BracketMarkers(overall) :
      MarkerValue(overall, m) \in 1..Len(old_order)

(* C2: the text strip_invalid_citations returns contains no [n] marker      *)
(* with n outside 1..N, also when the deletion of a marker joins the        *)
(* characters around it.                                                    *)
C2_StripLeavesOnlyValid ==
  pc = "cleaned" =>
    \A m \in BracketMarkers(overall) : MarkerValue(overall, m) \in 1..N

(* C3: the mapping renumber_citations builds from extract_ref_order is a    *)
(* bijection from the distinct indices of 1..N cited as [n] in the text     *)
(* onto 1..K; an index that is not cited is no key of the mapping and has   *)
(* no reference entry.                                                      *)
C3_MappingBijection ==
  [][(pc = "cleaned" /\ pc' = "built") =>
       LET cited == ValidCited(overall, BracketMarkers(overall), N)
           K     == Cardinality(cited)
       IN  /\ Len(mapping') = K
           /\ {mapping'[i][1] : i \in 1..Len(mapping')} = cited
           /\ {mapping'[i][2] : i \in 1..Len(mapping')} = 1..K
           /\ \A i, j \in 1..Len(mapping') :
                (mapping'[i][1] = mapping'[j][1] \/ mapping'[i][2] = mapping'[j][2])
                  => i = j
           /\ K >= 1 => Len(refs_text_parts') = K]_vars

C3_Witness ==
  /\ pc = "built"
  /\ N = 2
  /\ mapping = <<<<2, 1>>, <<1, 2>>>>
  /\ Len(FindAll(overall, "[", "]")) = 2

(* C5: when K >= 1 the reference list has exactly K entries numbered 1..K   *)
(* in ascending order, entry i carrying the title and link of the evidence  *)
(* item at position o_i, the i-th distinct valid index in first-appearance  *)
(* order of the cleaned text; every o_i is a position of the evidence list. *)
C5_ReferenceList ==
  [][(pc = "cleaned" /\ pc' = "built") =>
       LET ms == BracketMarkers(overall)
           o  == FirstAppearanceOrder(overall, ms, N)
       IN  Len(o) >= 1 =>
             /\ Len(refs_text_parts') = Len(o)
             /\ \A i \in 1..Len(o) :
                  /\ o[i] \in 1..Len(items)
                  /\ refs_text_parts'[i] = RefText(i, items[o[i]])]_vars

C5_Witness ==
  /\ pc = "built"
  /\ N = 2
  /\ refs_text_parts = <<RefText(1, Item(2)), RefText(2, Item(1))>>

(* C4: with o1..oK the distinct valid indices of the raw text in order of  *)
(* first appearance, counting {n}, (n) and [n] alike, the final text is the *)
(* raw text with every marker for o_i replaced at its position by [i] and   *)
(* all other characters unchanged.                                          *)
RECURSIVE ExpectedFrom(_, _, _, _)
ExpectedFrom(t, i, ms, n) ==
  IF i > Len(t) THEN <<>>
  ELSE IF \E m \in ms : m[1] = i
       THEN LET m == CHOOSE x \in ms : x[1] = i
                v == MarkerValue(t, m)
            IN  (IF v \in 1..n THEN Bracketed(IntToStr(Rank(t, ms, n, v)))
                 ELSE SubSeq(t, m[1], m[2]))
                \o ExpectedFrom(t, m[2] + 1, ms, n)
       ELSE <<t[i]>> \o ExpectedFrom(t, i + 1, ms, n)

Expected(t, n) == ExpectedFrom(t, 1, AnyMarkers(t), n)

C4_Original ==
  pc = "built" => overall = Expected(overall_raw, N)

(* C4, amended: the same, for a raw text all of whose markers carry an      *)
(* index in 1..N.                                                           *)
AllMarkersValid(t, n) ==
  \A m \in AnyMarkers(t) : MarkerValue(t, m) \in 1..n

C4_Renumbered ==
  (pc = "built" /\ AllMarkersValid(overall_raw, N)) =>
     overall = Expected(overall_raw, N)

C4_Witness ==
  /\ pc = "built"
  /\ N = 2
  /\ overall_raw = <<"(", "2", ")", "{", "1", "}", "(", "2", ")">>
  /\ overall = <<"[", "1", "]", "[", "2", "]", "[", "1", "]">>

(* C6: normalize_brackets is idempotent, and its result contains no {n}     *)
(* and no (n) with n a non-empty digit string.                              *)
C6_NormalizeIdempotent ==
  /\ [][(pc = "norm1" /\ pc' = "norm2") => overall' = overall]_vars
  /\ [](pc \in {"norm1", "norm2"} =>
          MarkersOf(overall, {<<"{", "}">>, <<"(", ")">>}) = {})

C6_Witness ==
  /\ pc = "norm2"
  /\ overall_raw = <<"(", "{", "1", "}", ")">>
  /\ overall = <<"(", "[", "1", "]", ")">>

(* C7: a raw text without any marker [n], {n}, (n) comes out of build_email *)
(* unchanged, with an empty mapping and the placeholder "No references      *)
(* available." in place of reference entries.                               *)
C7_ZeroCitation ==
  (pc = "built" /\ AnyMarkers(overall_raw) = {}) =>
     /\ overall = overall_raw
     /\ mapping = <<>>
     /\ refs_text_parts = <<NoReferences>>

C7_Witness ==
  /\ pc = "built"
  /\ llm = "generated"
  /\ N = 2
  /\ overall_raw = <<"[", "]", " ", "1">>
  /\ overall = overall_raw

(* C8: with no evidence item the LLM is never called and the normalizer is  *)
(* not invoked; the fixed message is supplied with USED_LLM false and       *)
(* FALLBACK_REASON "NO_ITEMS", and there is no reference entry.             *)
C8_Original ==
  (N = 0 /\ AfterSummarize) =>
     /\ "chat.completions.create" \notin calls
     /\ calls \cap NormalizerCalls = {}
     /\ overall_raw = NoItemsMessage
     /\ ~USED_LLM
     /\ FALLBACK_REASON = "NO_ITEMS"
     /\ pc = "built" => refs_text_parts = <<NoReferences>>

(* C8, amended: with no evidence item the LLM is never called and           *)
(* renumber_citations is not invoked; build_email still runs                *)
(* normalize_brackets, strip_invalid_citations and extract_ref_order on the *)
(* fixed message, which they leave unchanged.                               *)
C8_NoItems ==
  (N = 0 /\ AfterSummarize) =>
     /\ "chat.completions.create" \notin calls
     /\ "renumber_citations" \notin calls
     /\ overall_raw = NoItemsMessage
     /\ ~USED_LLM
     /\ FALLBACK_REASON = "NO_ITEMS"
     /\ pc \in {"cleaned", "built"} =>
          /\ {"normalize_brackets", "strip_invalid_citations",
              "extract_ref_order"} \subseteq calls
          /\ overall = NoItemsMessage
          /\ old_order = <<>>
     /\ pc = "built" =>
          /\ mapping = <<>>
          /\ refs_text_parts = <<NoReferences>>
          /\ origin_label = [label |-> "Fallback summary", reason |-> "NO_ITEMS"]

C8_Witness ==
  /\ pc = "built"
  /\ N = 0
  /\ OPENAI_API_KEY
  /\ overall = NoItemsMessage

(* C9: fetch_items returns pairwise distinct links; of the admitted entries *)
(* (title and link non-empty, inside the time window, on a weekday unless   *)
(* INCLUDE_WEEKENDS) that share a link exactly one survives, the last one   *)
(* in feed order.                                                           *)
IsAdmitted(e) ==
  /\ clean_text(e.title) # <<>>
  /\ e.link # <<>>
  /\ INCLUDE_WEEKENDS \/ Weekday(parse_pubdate(e)) < 5
  /\ parse_pubdate(e) >= now_et - HOURS_BACK

LastAdmitted(l) ==
  CHOOSE k \in 1..Len(feed) :
    /\ IsAdmitted(feed[k]) /\ feed[k].link = l
    /\ \A j \in (k + 1)..Len(feed) : ~(IsAdmitted(feed[j]) /\ feed[j].link = l)

C9_DedupLastWins ==
  pc = "fetched" =>
    /\ \A i, j \in 1..Len(items) : items[i].link = items[j].link => i = j
    /\ {items[i].link : i \in 1..Len(items)}
         = {feed[k].link : k \in {x \in 1..Len(feed) : IsAdmitted(feed[x])}}
    /\ \A i \in 1..Len(items) :
         LET e == feed[LastAdmitted(items[i].link)]
         IN  /\ items[i].title = clean_text(e.title)
             /\ items[i].pub = parse_pubdate(e)
             /\ items[i].abstract
                  = Combined(clean_text(e.summary), clean_text(e.description))

C9_Witness ==
  /\ pc = "fetched"
  /\ Len(feed) = 2
  /\ IsAdmitted(feed[1]) /\ IsAdmitted(feed[2])
  /\ feed[1].link = feed[2].link
  /\ feed[1].description # feed[2].description
  /\ Len(items) = 1
  /\ items[1].abstract = <<"x", " ", "y">>

(* C10: after every return of summarize_overall USED_LLM is true exactly    *)
(* when the call returned text generated by the LLM and exactly when        *)
(* FALLBACK_REASON is None; the origin label is "GPT summarize:" only for   *)
(* generated text and otherwise names a fallback reason other than None,    *)
(* also in a further run of the same process.                               *)
C10_FlagsConsistent ==
  AfterSummarize =>
     /\ USED_LLM <=> llm = "generated"
     /\ USED_LLM <=> FALLBACK_REASON = None
     /\ pc = "built" =>
          /\ origin_label.label = "GPT summarize:" <=> llm = "generated"
          /\ origin_label.label # "GPT summarize:" =>
               /\ origin_label.reason # None
               /\ origin_label.reason = FALLBACK_REASON

C10_Witness ==
  /\ pc = "built"
  /\ llm = "failed"
  /\ ~USED_LLM
  /\ origin_label = [label |-> "Fallback summary", reason |-> "OPENAI_ERROR"]

====
